---- MODULE Spec2Model ----
(***************************************************************************)
(* Model of src/main.py, the PDF dot matrix overlay tool.                  *)
(*                                                                         *)
(* Numbers.  The program computes with floats; the model computes with     *)
(* exact integers in fixed point.  Lengths (millimetres and points alike)  *)
(* are integers, and the inputs are drawn from sets on which every         *)
(* division of the program is exact (ArithmeticExact states this and is    *)
(* checked), so the model is exact rational arithmetic.  Opacity is in     *)
(* tenths (10 is 1.0).                                                     *)
(***************************************************************************)
EXTENDS Integers, Sequences, FiniteSets, TLC

(***************************************************************************)
(* Bounds of the model.                                                    *)
(***************************************************************************)
\* longest input document, in pages
MaxPages == 2
\* direct calls of calculate_dot_positions use dimensions and spacings
\* 2*k for k in -MaxCalc..MaxCalc
MaxCalc == 6

(***************************************************************************)
(* Unit conversion, main.py lines 24-37.                                   *)
(***************************************************************************)
POINTS_PER_INCH == 72
\* MM_PER_INCH = 25.4, in tenths
MM_PER_INCH_x10 == 254

\* x * MM_TO_POINTS, with MM_TO_POINTS = 72 / 25.4 = 720 / 254
mm_to_points(millimeters) ==
    (millimeters * POINTS_PER_INCH * 10) \div MM_PER_INCH_x10

\* x / MM_TO_POINTS
points_to_mm(points) ==
    (points * MM_PER_INCH_x10) \div (POINTS_PER_INCH * 10)

(***************************************************************************)
(* DotMatrixConfig, main.py lines 40-61.  The defaults, in fixed point     *)
(* with 635 units to the millimetre: 10.0 mm, 0.4 mm, opacity 1.0.         *)
(***************************************************************************)
DefaultSpacing == 6350
DefaultDiameter == 254
DefaultColor == "#a0a0a0"
DefaultOpacity == 10

DotMatrixConfig(spacing, diameter, color, opacity) ==
    [dot_spacing_mm |-> spacing, dot_diameter_mm |-> diameter,
     dot_color_hex |-> color, opacity |-> opacity]

DefaultConfig ==
    DotMatrixConfig(DefaultSpacing, DefaultDiameter, DefaultColor, DefaultOpacity)

dot_radius_mm(config) == config.dot_diameter_mm \div 2

(***************************************************************************)
(* calculate_dot_positions, main.py lines 64-81.                           *)
(***************************************************************************)
\* math.floor(a / b) for b # 0
FloorDiv(a, b) == IF b > 0 THEN a \div b ELSE (0 - a) \div (0 - b)

\* mutant: the margin is not halved
calculate_dot_positions_nohalf(dimension_mm, spacing_mm) ==
    IF spacing_mm = 0
    THEN [err |-> "ZeroDivisionError", val |-> <<>>]
    ELSE LET num_intervals == FloorDiv(dimension_mm, spacing_mm)
             span == num_intervals * spacing_mm
             margin == dimension_mm - span
         IN  \* i ranges over range(num_intervals + 1), empty when that is <= 0
             [err |-> "none",
              val |-> [k \in 1..(num_intervals + 1) |->
                          margin + (k - 1) * spacing_mm]]

\* the result is [err, val]: the exception raised ("none" when it returns)
\* and the list returned
calculate_dot_positions(dimension_mm, spacing_mm) ==
    IF spacing_mm = 0
    THEN [err |-> "ZeroDivisionError", val |-> <<>>]
    ELSE LET num_intervals == FloorDiv(dimension_mm, spacing_mm)
             span == num_intervals * spacing_mm
             margin == (dimension_mm - span) \div 2
         IN  \* i ranges over range(num_intervals + 1), empty when that is <= 0
             [err |-> "none",
              val |-> [k \in 1..(num_intervals + 1) |->
                          margin + (k - 1) * spacing_mm]]

(***************************************************************************)
(* Drawables: what a reportlab Canvas holds after save().  kind names the  *)
(* function that drew it; a rect is <<x, y, width, height>>.               *)
(***************************************************************************)
NoDrawable ==
    [kind |-> "none", pagesize |-> <<0, 0>>, rects |-> <<>>,
     circles |-> <<>>, lines |-> <<>>, alpha |-> DefaultOpacity]

\* mutant: the sides are swapped
create_half_white_overlay_swapped(width_pt, height_pt, cover_side) ==
    LET half_width == width_pt \div 2
    IN  [kind |-> "half_white", pagesize |-> <<width_pt, height_pt>>,
         rects |-> IF cover_side = "left"
                   THEN << <<half_width, 0, half_width, height_pt>> >>
                   ELSE << <<0, 0, half_width, height_pt>> >>,
         circles |-> <<>>, lines |-> <<>>, alpha |-> DefaultOpacity]

\* main.py lines 84-111
create_half_white_overlay(width_pt, height_pt, cover_side) ==
    LET half_width == width_pt \div 2
    IN  [kind |-> "half_white", pagesize |-> <<width_pt, height_pt>>,
         rects |-> IF cover_side = "left"
                   THEN << <<0, 0, half_width, height_pt>> >>
                   ELSE << <<half_width, 0, half_width, height_pt>> >>,
         circles |-> <<>>, lines |-> <<>>, alpha |-> DefaultOpacity]

\* The reportlab canvas is not part of the repository: main.py hands it
\* config.opacity unchecked (lines 146-147), and what the canvas does with
\* a value outside [0.0, 1.0] is its own affair.  lib is its reaction:
\* "accept" (it draws) or "raise" (it raises its own ValueError).
CanvasReactions == {"accept", "raise"}

OpacityInRange(opacity) == 0 <= opacity /\ opacity <= 10

\* main.py lines 151-156: for x in x_positions: for y in y_positions
DotCircles(x_positions, y_positions, radius_pt) ==
    LET ny == Len(y_positions)
    IN  IF ny = 0 THEN <<>>
        ELSE [k \in 1..(Len(x_positions) * ny) |->
                 [x |-> mm_to_points(x_positions[((k - 1) \div ny) + 1]),
                  y |-> mm_to_points(y_positions[((k - 1) % ny) + 1]),
                  r |-> radius_pt]]

\* main.py lines 114-171; the result is [err, drawable]
create_dot_matrix_overlay(width_pt, height_pt, config, split_border, lib) ==
    LET width_mm == points_to_mm(width_pt)
        height_mm == points_to_mm(height_pt)
        xr == calculate_dot_positions(width_mm, config.dot_spacing_mm)
        yr == calculate_dot_positions(height_mm, config.dot_spacing_mm)
        x_positions == xr.val
        y_positions == yr.val
        radius_pt == mm_to_points(dot_radius_mm(config))
        center_x_pt == width_pt \div 2
        border ==
            IF split_border /\ Len(y_positions) > 0
            THEN << [x1 |-> center_x_pt,
                     y1 |-> mm_to_points(y_positions[1]),
                     x2 |-> center_x_pt,
                     y2 |-> mm_to_points(y_positions[Len(y_positions)]),
                     width |-> mm_to_points(config.dot_diameter_mm)] >>
            ELSE <<>>
    IN  IF xr.err # "none" THEN [err |-> xr.err, drawable |-> NoDrawable]
        ELSE IF yr.err # "none" THEN [err |-> yr.err, drawable |-> NoDrawable]
        ELSE IF ~OpacityInRange(config.opacity) /\ lib = "raise"
        THEN [err |-> "ValueError", drawable |-> NoDrawable]
        ELSE [err |-> "none",
              drawable |->
                 [kind |-> "dot_matrix",
                  pagesize |-> <<width_pt, height_pt>>,
                  rects |-> <<>>,
                  circles |-> DotCircles(x_positions, y_positions, radius_pt),
                  lines |-> border,
                  alpha |-> config.opacity]]

(***************************************************************************)
(* Page objects of pypdf.  A page is its size and its content, a stack of  *)
(* layers from bottom to top.  A layer is the original content of source   *)
(* page src (opaque to the program) or a drawable.  ops is the history of  *)
(* the operations applied to the page object.                              *)
(***************************************************************************)
OrigLayer(i) == [kind |-> "orig", src |-> i, d |-> NoDrawable]

DrawLayer(drawable) == [kind |-> drawable.kind, src |-> 0, d |-> drawable]

NoPage == [width |-> 0, height |-> 0, ok |-> TRUE, layers |-> <<>>, ops |-> <<>>]

\* reader.pages[i] of the input document; ok is FALSE for a page whose
\* content pypdf cannot merge
SourcePage(kindOfPage, i) ==
    [width |-> kindOfPage.width, height |-> kindOfPage.height,
     ok |-> kindOfPage.ok, layers |-> <<OrigLayer(i)>>, ops |-> <<>>]

\* PdfReader(buffer).pages[0], main.py lines 304-305, 312, 318
PageOfBuffer(drawable) ==
    [width |-> drawable.pagesize[1], height |-> drawable.pagesize[2],
     ok |-> TRUE, layers |-> <<DrawLayer(drawable)>>, ops |-> <<"create">>]

\* mutant: the over flag is ignored, page2 always goes on top
merge_page_always_over(self, page2, over) ==
    [self EXCEPT !.layers = self.layers \o page2.layers,
                 !.ops = Append(self.ops, IF over THEN "merge_over"
                                                  ELSE "merge_under")]

\* self.merge_page(page2, over): self changes, page2 does not
merge_page(self, page2, over) ==
    [self EXCEPT !.layers = IF over THEN self.layers \o page2.layers
                                    ELSE page2.layers \o self.layers,
                 !.ops = Append(self.ops, IF over THEN "merge_over"
                                                  ELSE "merge_under")]

\* mutant: the page is put in front of the pages added so far
add_page_first(pages, page) == <<page>> \o pages

\* writer.add_page(page)
add_page(pages, page) == Append(pages, page)

(***************************************************************************)
(* config.toml and load_config_from_toml, main.py lines 227-265.           *)
(* A file is [exists, parses, dot_matrix]; dot_matrix is the table, a      *)
(* function from the keys present.  The opacity value is tagged with its   *)
(* TOML type: a number, nan, or a string.                                  *)
(***************************************************************************)
Num(v) == [t |-> "float", v |-> v]
NaN == [t |-> "nan", v |-> 0]
Str == [t |-> "str", v |-> 0]

\* dict.get(key, default)
Get(dict, key, default) == IF key \in DOMAIN dict THEN dict[key] ELSE default

\* 0.0 <= opacity <= 1.0 of line 249, for a number or nan
InUnitInterval(o) == o.t = "float" /\ 0 <= o.v /\ o.v <= 10

\* the result is [config, warning]: the configuration returned and the
\* warning printed to stderr ("none" when none)
Loaded(config, warning) == [config |-> config, warning |-> warning]

\* mutant: only the upper end of the range is checked
load_config_from_toml_upper_only(file) ==
    IF ~file.exists THEN Loaded(DefaultConfig, "none")
    ELSE IF ~file.parses THEN Loaded(DefaultConfig, "load_failed")
    ELSE LET dot_matrix == file.dot_matrix
             opacity == Get(dot_matrix, "opacity", Num(DefaultOpacity))
             bad == opacity.t = "float" /\ opacity.v > 10
         IN  IF opacity.t = "str" THEN Loaded(DefaultConfig, "load_failed")
             ELSE Loaded(
                      DotMatrixConfig(
                          Get(dot_matrix, "spacing_mm", DefaultSpacing),
                          Get(dot_matrix, "diameter_mm", DefaultDiameter),
                          Get(dot_matrix, "color_hex", DefaultColor),
                          IF bad THEN DefaultOpacity ELSE opacity.v),
                      IF bad THEN "opacity_out_of_range" ELSE "none")

load_config_from_toml(file) ==
    IF ~file.exists THEN Loaded(DefaultConfig, "none")
    \* tomli.load raises: the except clause warns and returns the defaults
    ELSE IF ~file.parses THEN Loaded(DefaultConfig, "load_failed")
    ELSE LET dot_matrix == file.dot_matrix
             opacity == Get(dot_matrix, "opacity", Num(DefaultOpacity))
             bad == ~InUnitInterval(opacity)
         IN  \* comparing a string with 0.0 raises TypeError: the except clause
             IF opacity.t = "str" THEN Loaded(DefaultConfig, "load_failed")
             ELSE Loaded(
                      DotMatrixConfig(
                          Get(dot_matrix, "spacing_mm", DefaultSpacing),
                          Get(dot_matrix, "diameter_mm", DefaultDiameter),
                          Get(dot_matrix, "color_hex", DefaultColor),
                          IF bad THEN DefaultOpacity ELSE opacity.v),
                      IF bad THEN "opacity_out_of_range" ELSE "none")

(***************************************************************************)
(* The inputs the program is run on.                                       *)
(***************************************************************************)
\* a key of the table with its value, or nothing when opt is <<>>
Entry(key, opt) == IF opt = <<>> THEN <<>> ELSE (key :> opt[1])

TomlTable(o, s, d, c) ==
    Entry("opacity", o) @@ Entry("spacing_mm", s)
        @@ Entry("diameter_mm", d) @@ Entry("color_hex", c)

NoToml == [exists |-> FALSE, parses |-> FALSE, dot_matrix |-> <<>>]

TomlFiles ==
    {NoToml, [exists |-> TRUE, parses |-> FALSE, dot_matrix |-> <<>>]}
    \cup
    {[exists |-> TRUE, parses |-> TRUE, dot_matrix |-> TomlTable(o, s, d, c)] :
        o \in {<<>>, <<Num(-5)>>, <<Num(0)>>, <<Num(5)>>, <<Num(10)>>,
               <<Num(15)>>, <<NaN>>, <<Str>>},
        s \in {<<>>, <<5080>>, <<0>>, <<-6350>>},
        d \in {<<>>, <<508>>},
        c \in {<<>>, <<"#ff0000">>}}

\* configurations a caller of process_pdf constructs itself: the dataclass
\* checks nothing (lines 40-47)
DirectConfigs ==
    {DotMatrixConfig(s, DefaultDiameter, DefaultColor, o) :
        s \in {DefaultSpacing, 0, -6350}, o \in {-5, 5, 15}}

\* the pages a document is made of: their MediaBox and whether pypdf can
\* merge their content
PageKinds ==
    {[width |-> 43200, height |-> 7200, ok |-> TRUE],
     [width |-> 7200, height |-> 43200, ok |-> TRUE],
     [width |-> 43200, height |-> 43200, ok |-> FALSE]}

\* an input path: no file, a file PdfReader cannot read, or a document
Documents ==
    {[exists |-> FALSE, readable |-> FALSE, pages |-> <<>>],
     [exists |-> TRUE, readable |-> FALSE, pages |-> <<>>]}
    \cup
    {[exists |-> TRUE, readable |-> TRUE, pages |-> ps] :
        ps \in UNION {[1..n -> PageKinds] : n \in 0..MaxPages}}

CalcValues == {2 * k : k \in (0 - MaxCalc)..MaxCalc}

\* for cover_side in ("right", "left"), line 301
CoverSides == <<"right", "left">>

(***************************************************************************)
(* The state.                                                              *)
(***************************************************************************)
VARIABLES
    pc,            \* where the program is
    entry,         \* the function the caller entered: main, process_pdf,
                   \* calculate_dot_positions
    toml,          \* load_config_from_toml: the file being loaded
    warning,       \* the warning load_config_from_toml printed
    config,        \* the DotMatrixConfig in use
    doc,           \* the input path's content
    split,
    split_border,
    pages,         \* reader.pages: the source page objects
    idx,           \* for page in reader.pages: the page's number
    side,          \* for cover_side in CoverSides: its index
    dot_overlay,   \* dot_overlay_buffer
    output_page,   \* output_page of the split branch
    writer,        \* the pages of the PdfWriter
    outfile,       \* output_path: "absent", "old" (a file from before the
                   \* run), "empty" (created or truncated by open),
                   \* "partial", "complete"
    opens,         \* how many times output_path was opened for writing
    written,       \* the pages serialized to output_path
    err,           \* the exception raised, "none" when none
    exit_code,     \* main's return value, -1 before it returns
    calc           \* a direct call of calculate_dot_positions:
                   \* its arguments and its result

vars == <<pc, entry, toml, warning, config, doc, split, split_border, pages, idx, side,
          dot_overlay, output_page, writer, outfile, opens, written, err,
          exit_code, calc>>

NoCalc == [called |-> FALSE, dimension |-> 0, spacing |-> 0,
           err |-> "none", val |-> <<>>]

NoDocument == [exists |-> FALSE, readable |-> FALSE, pages |-> <<>>]

Init ==
    /\ pc = "start"
    /\ entry = "none"
    /\ toml = NoToml
    /\ warning = "none"
    /\ config = DefaultConfig
    /\ doc = NoDocument
    /\ split = FALSE
    /\ split_border = FALSE
    /\ pages = <<>>
    /\ idx = 0
    /\ side = 0
    /\ dot_overlay = NoDrawable
    /\ output_page = NoPage
    /\ writer = <<>>
    /\ outfile \in {"absent", "old"}
    /\ opens = 0
    /\ written = <<>>
    /\ err = "none"
    /\ exit_code = -1
    /\ calc = NoCalc

procVars == <<pages, idx, side, dot_overlay, output_page, writer>>
fileVars == <<outfile, opens, written>>
argVars == <<config, doc, split, split_border>>

(***************************************************************************)
(* A caller calls calculate_dot_positions itself.                          *)
(***************************************************************************)
CallCalculate ==
    /\ pc = "start"
    /\ \E d \in CalcValues, s \in CalcValues :
          LET r == calculate_dot_positions(d, s)
          IN  calc' = [called |-> TRUE, dimension |-> d, spacing |-> s,
                       err |-> r.err, val |-> r.val]
    /\ pc' = "returned"
    /\ entry' = "calculate_dot_positions"
    /\ UNCHANGED <<toml, warning, argVars, procVars, fileVars, err, exit_code>>

(***************************************************************************)
(* main, lines 373-413.                                                    *)
(***************************************************************************)
\* lines 376-385 and 236-243: the config path is known and the file, if
\* there is one, is read
MainReadToml ==
    /\ pc = "start"
    /\ \E file \in TomlFiles : toml' = file
    /\ entry' = "main"
    /\ pc' = "load_config"
    /\ UNCHANGED <<warning, argVars, procVars, fileVars, err, exit_code, calc>>

\* line 385: config = load_config_from_toml(...)
MainLoadConfig ==
    /\ pc = "load_config"
    /\ config' = load_config_from_toml(toml).config
    /\ warning' = load_config_from_toml(toml).warning
    /\ pc' = "parse_args"
    /\ UNCHANGED <<entry, toml, doc, split, split_border, procVars, fileVars,
                   err, exit_code, calc>>

\* lines 388-392: the arguments are parsed, and a missing input ends the run
MainParseArgs ==
    /\ pc = "parse_args"
    /\ \E d \in Documents, s \in BOOLEAN, b \in BOOLEAN :
          /\ doc' = d
          /\ split' = s
          /\ split_border' = b
          /\ IF ~d.exists
             THEN pc' = "exit" /\ exit_code' = 1
             ELSE pc' = "process_pdf" /\ exit_code' = exit_code
    /\ toml' = NoToml
    /\ UNCHANGED <<entry, warning, config, procVars, fileVars, err, calc>>

\* lines 403-410: process_pdf returned
MainSuccess ==
    /\ pc = "returned"
    /\ entry = "main"
    /\ exit_code' = 0
    /\ pc' = "exit"
    /\ UNCHANGED <<entry, toml, warning, argVars, procVars, fileVars, err, calc>>

\* lines 411-413: the error is printed; nothing is done about output_path
MainExcept ==
    /\ pc = "raised"
    /\ entry = "main"
    /\ exit_code' = 1
    /\ pc' = "exit"
    /\ UNCHANGED <<entry, toml, warning, argVars, procVars, fileVars, err, calc>>

(***************************************************************************)
(* A caller calls process_pdf itself, with a configuration of its own.     *)
(***************************************************************************)
CallProcessPdf ==
    /\ pc = "start"
    /\ \E c \in DirectConfigs, d \in Documents, s \in BOOLEAN, b \in BOOLEAN :
          /\ d.exists
          /\ config' = c
          /\ doc' = d
          /\ split' = s
          /\ split_border' = b
    /\ entry' = "process_pdf"
    /\ pc' = "process_pdf"
    /\ UNCHANGED <<toml, warning, procVars, fileVars, err, exit_code, calc>>

(***************************************************************************)
(* process_pdf, lines 268-323, one action per statement that changes the   *)
(* state.  An exception ends it: err is set and pc becomes "raised".       *)
(***************************************************************************)
Raise(e) ==
    /\ err' = e
    /\ pc' = "raised"

\* lines 284-285: reader = PdfReader(input_path); writer = PdfWriter()
OpenReader ==
    /\ pc = "process_pdf"
    /\ IF ~doc.readable
       THEN /\ Raise("PdfReadError")
            /\ UNCHANGED procVars
       ELSE /\ pages' = [i \in 1..Len(doc.pages) |-> SourcePage(doc.pages[i], i)]
            /\ writer' = <<>>
            /\ idx' = 1
            /\ pc' = "page"
            /\ UNCHANGED <<side, dot_overlay, output_page, err>>
    /\ UNCHANGED <<entry, toml, warning, argVars, fileVars, exit_code, calc>>

\* lines 287-297: the next page's overlay is created
CreateDotOverlay ==
    /\ pc = "page"
    /\ idx <= Len(pages)
    /\ \E lib \in CanvasReactions :
          LET page == pages[idx]
              r == create_dot_matrix_overlay(page.width, page.height, config,
                                             split /\ split_border, lib)
          IN  IF r.err # "none"
              THEN /\ Raise(r.err)
                   /\ UNCHANGED <<dot_overlay, side>>
              ELSE /\ dot_overlay' = r.drawable
                   /\ side' = IF split THEN 1 ELSE side
                   /\ pc' = IF split THEN "white" ELSE "normal_merge"
                   /\ err' = err
    /\ UNCHANGED <<entry, toml, warning, argVars, pages, idx, output_page, writer,
                   fileVars, exit_code, calc>>

\* lines 303-305: the half-white page is the base of the output page
CreateWhite ==
    /\ pc = "white"
    /\ LET page == pages[idx]
       IN  output_page' = PageOfBuffer(
               create_half_white_overlay(page.width, page.height,
                                         CoverSides[side]))
    /\ pc' = "merge_under"
    /\ UNCHANGED <<entry, toml, warning, argVars, pages, idx, side, dot_overlay, writer,
                   fileVars, err, exit_code, calc>>

\* mutant: the white page is merged onto the source page, which becomes the
\* output page
MergeUnderInPlace ==
    /\ pc = "merge_under"
    /\ IF ~pages[idx].ok
       THEN /\ Raise("PdfMergeError")
            /\ UNCHANGED <<output_page, pages>>
       ELSE /\ pages' = [pages EXCEPT ![idx] = merge_page(@, output_page, TRUE)]
            /\ output_page' = merge_page(pages[idx], output_page, TRUE)
            /\ pc' = "merge_dots"
            /\ err' = err
    /\ UNCHANGED <<entry, toml, warning, argVars, idx, side, dot_overlay, writer,
                   fileVars, exit_code, calc>>

\* line 308: output_page.merge_page(page, over=False)
MergeUnder ==
    /\ pc = "merge_under"
    /\ IF ~pages[idx].ok
       THEN /\ Raise("PdfMergeError")
            /\ UNCHANGED output_page
       ELSE /\ output_page' = merge_page(output_page, pages[idx], FALSE)
            /\ pc' = "merge_dots"
            /\ err' = err
    /\ UNCHANGED <<entry, toml, warning, argVars, pages, idx, side, dot_overlay, writer,
                   fileVars, exit_code, calc>>

\* lines 311-313: output_page.merge_page(dot_reader.pages[0])
MergeDots ==
    /\ pc = "merge_dots"
    /\ output_page' = merge_page(output_page, PageOfBuffer(dot_overlay), TRUE)
    /\ pc' = "add_page"
    /\ UNCHANGED <<entry, toml, warning, argVars, pages, idx, side, dot_overlay, writer,
                   fileVars, err, exit_code, calc>>

\* line 315: writer.add_page(output_page), then the next side or page
AddPage ==
    /\ pc = "add_page"
    /\ writer' = add_page(writer, output_page)
    /\ IF side < Len(CoverSides)
       THEN /\ side' = side + 1
            /\ idx' = idx
            /\ pc' = "white"
       ELSE /\ side' = side
            /\ idx' = idx + 1
            /\ pc' = "page"
    /\ UNCHANGED <<entry, toml, warning, argVars, pages, dot_overlay, output_page,
                   fileVars, err, exit_code, calc>>

\* lines 318-319: page.merge_page(dot_reader.pages[0]), on the source page
NormalMerge ==
    /\ pc = "normal_merge"
    /\ IF ~pages[idx].ok
       THEN /\ Raise("PdfMergeError")
            /\ UNCHANGED pages
       ELSE /\ pages' = [pages EXCEPT
                            ![idx] = merge_page(@, PageOfBuffer(dot_overlay), TRUE)]
            /\ pc' = "normal_add"
            /\ err' = err
    /\ UNCHANGED <<entry, toml, warning, argVars, idx, side, dot_overlay, output_page,
                   writer, fileVars, exit_code, calc>>

\* line 320: writer.add_page(page)
NormalAdd ==
    /\ pc = "normal_add"
    /\ writer' = add_page(writer, pages[idx])
    /\ idx' = idx + 1
    /\ pc' = "page"
    /\ UNCHANGED <<entry, toml, warning, argVars, pages, side, dot_overlay, output_page,
                   fileVars, err, exit_code, calc>>

\* line 322: open(output_path, "wb") after the last page.  It creates the
\* file or truncates the one there, or fails and leaves the path as it was.
OpenOutput ==
    /\ pc = "page"
    /\ idx > Len(pages)
    /\ \/ /\ outfile' = "empty"
          /\ opens' = opens + 1
          /\ pc' = "write"
          /\ err' = err
       \/ /\ Raise("OSError")
          /\ UNCHANGED <<outfile, opens>>
    /\ UNCHANGED <<entry, toml, warning, argVars, procVars, written, exit_code, calc>>

\* line 323: writer.write(output_file).  A failure in the middle leaves
\* what was written so far; the with statement only closes the file.
WriteOutput ==
    /\ pc = "write"
    /\ \/ /\ outfile' = "complete"
          /\ written' = writer
          /\ pc' = "returned"
          /\ err' = err
       \/ /\ outfile' = "partial"
          /\ written' = written
          /\ Raise("OSError")
    /\ UNCHANGED <<entry, toml, warning, argVars, procVars, opens, exit_code, calc>>

Next ==
    \/ CallCalculate
    \/ MainReadToml
    \/ MainLoadConfig
    \/ MainParseArgs
    \/ MainSuccess
    \/ MainExcept
    \/ CallProcessPdf
    \/ OpenReader
    \/ CreateDotOverlay
    \/ CreateWhite
    \/ MergeUnder
    \/ MergeDots
    \/ AddPage
    \/ NormalMerge
    \/ NormalAdd
    \/ OpenOutput
    \/ WriteOutput

Spec == Init /\ [][Next]_vars

(***************************************************************************)
(* The model's arithmetic is exact: on the inputs above no division of     *)
(* the program leaves a remainder, so integer division is the program's    *)
(* real division.                                                          *)
(***************************************************************************)
ExactPositions(dimension_mm, spacing_mm) ==
    spacing_mm # 0 =>
        /\ (dimension_mm - FloorDiv(dimension_mm, spacing_mm) * spacing_mm) % 2 = 0
        /\ \A i \in DOMAIN calculate_dot_positions(dimension_mm, spacing_mm).val :
              (calculate_dot_positions(dimension_mm, spacing_mm).val[i]
                  * POINTS_PER_INCH * 10) % MM_PER_INCH_x10 = 0

ArithmeticExact ==
    /\ config.dot_diameter_mm % 2 = 0
    /\ (dot_radius_mm(config) * POINTS_PER_INCH * 10) % MM_PER_INCH_x10 = 0
    /\ \A i \in DOMAIN pages :
          /\ pages[i].width % 2 = 0
          /\ (pages[i].width * MM_PER_INCH_x10) % (POINTS_PER_INCH * 10) = 0
          /\ (pages[i].height * MM_PER_INCH_x10) % (POINTS_PER_INCH * 10) = 0
          /\ ExactPositions(points_to_mm(pages[i].width), config.dot_spacing_mm)
          /\ ExactPositions(points_to_mm(pages[i].height), config.dot_spacing_mm)
    /\ calc.called /\ calc.spacing # 0 =>
          (calc.dimension - FloorDiv(calc.dimension, calc.spacing) * calc.spacing) % 2 = 0

(***************************************************************************)
(* What the claims speak of.                                               *)
(***************************************************************************)
\* the loop over the source pages has ended
LoopDone == idx = Len(pages) + 1

\* create_dot_matrix_overlay has been called at least once by process_pdf
OverlayRequested == Len(pages) >= 1 /\ ~(pc = "page" /\ idx = 1)

LayerKinds(p) == [j \in 1..Len(p.layers) |-> p.layers[j].kind]

\* the source pages whose original content is on page p
Sources(p) == {p.layers[j].src : j \in {k \in 1..Len(p.layers) : p.layers[k].kind = "orig"}}

\* the source page output page k is expected to come from
SourceIndex(k) == IF split THEN (k + 1) \div 2 ELSE k

\* page p shows solid white over [lo, hi] x [0, height]: a white rectangle
\* covers exactly that region and lies above the original content
HalfIsWhite(p, lo, hi) ==
    \E j \in 1..Len(p.layers) :
        /\ p.layers[j].kind = "half_white"
        /\ \E n \in 1..Len(p.layers[j].d.rects) :
              LET r == p.layers[j].d.rects[n]
              IN  r[1] = lo /\ r[1] + r[3] = hi /\ r[2] = 0 /\ r[4] = p.height
        /\ \A k \in 1..Len(p.layers) : p.layers[k].kind = "orig" => k < j

\* the border lines drawn on page p, and the dots
DotLayersOf(p) == SelectSeq(p.layers, LAMBDA l : l.kind = "dot_matrix")
BorderLines(p) == IF DotLayersOf(p) = <<>> THEN <<>> ELSE DotLayersOf(p)[1].d.lines
Circles(p) == IF DotLayersOf(p) = <<>> THEN <<>> ELSE DotLayersOf(p)[1].d.circles

\* the source page as it was read
Untouched(i) == pages[i] = SourcePage(doc.pages[i], i)

(***************************************************************************)
(* C1.  For positive dimension and spacing, calculate_dot_positions        *)
(* returns floor(dimension/spacing)+1 >= 1 offsets, consecutive ones       *)
(* exactly spacing apart (so strictly ascending), spanning                 *)
(* floor(dimension/spacing)*spacing, with equal margins at both ends; a    *)
(* dimension smaller than the spacing gives the single offset dimension/2. *)
(***************************************************************************)
C1_CenteredPositions ==
    (calc.called /\ calc.dimension > 0 /\ calc.spacing > 0) =>
        LET n == calc.dimension \div calc.spacing
            v == calc.val
        IN  /\ calc.err = "none"
            /\ Len(v) = n + 1
            /\ Len(v) >= 1
            /\ \A i \in 1..(Len(v) - 1) :
                  v[i] < v[i + 1] /\ v[i + 1] - v[i] = calc.spacing
            /\ v[Len(v)] - v[1] = n * calc.spacing
            /\ v[1] = calc.dimension - v[Len(v)]
            /\ calc.dimension < calc.spacing => v = <<calc.dimension \div 2>>

C1_Witness ==
    /\ calc.called /\ calc.dimension > 0 /\ calc.spacing > 0
    /\ Len(calc.val) >= 3
    /\ calc.val[1] > 0

(***************************************************************************)
(* C2.  As claimed: a spacing <= 0 or a dimension <= 0 given to the layout *)
(* computation, directly or through create_dot_matrix_overlay, fails with  *)
(* InvalidParameter, returns no sequence and produces no drawable.         *)
(***************************************************************************)
C2_InvalidParameterRaised ==
    /\ (calc.called /\ (calc.dimension <= 0 \/ calc.spacing <= 0)) =>
          calc.err = "InvalidParameter" /\ calc.val = <<>>
    /\ (OverlayRequested /\ config.dot_spacing_mm <= 0) =>
          err = "InvalidParameter" /\ dot_overlay = NoDrawable

(***************************************************************************)
(* C3.  Output pages are appended in source order: output page k comes     *)
(* from source page k (normal mode) or from source page ceil(k/2) (split   *)
(* mode), and when the loop has ended the output has N, respectively 2N,   *)
(* pages.                                                                  *)
(***************************************************************************)
C3_PagesInSourceOrder ==
    /\ \A k \in 1..Len(writer) : Sources(writer[k]) = {SourceIndex(k)}
    /\ LoopDone =>
          Len(writer) = IF split THEN 2 * Len(pages) ELSE Len(pages)
    /\ outfile = "complete" => written = writer /\ LoopDone

C3_Witness ==
    /\ outfile = "complete"
    /\ split
    /\ Len(pages) = 2
    /\ Len(written) = 4

(***************************************************************************)
(* C4.  As claimed: in split mode the first output page of each pair has   *)
(* its left half solid white and the second its right half.                *)
(***************************************************************************)
C4_FirstLeftWhite ==
    split =>
        \A k \in 1..Len(writer) :
            LET p == writer[k]
                half == p.width \div 2
            IN  IF k % 2 = 1
                THEN HalfIsWhite(p, 0, half)
                ELSE HalfIsWhite(p, half, p.width)

(***************************************************************************)
(* C4, amended.  In split mode the first output page of each pair has its  *)
(* right half [width/2, width] solid white and the left half showing the   *)
(* original; the second has its left half [0, width/2] solid white and the *)
(* right half showing the original.                                        *)
(***************************************************************************)
C4_FirstRightWhite ==
    split =>
        \A k \in 1..Len(writer) :
            LET p == writer[k]
                half == p.width \div 2
            IN  IF k % 2 = 1
                THEN HalfIsWhite(p, half, p.width) /\ ~HalfIsWhite(p, 0, half)
                ELSE HalfIsWhite(p, 0, half) /\ ~HalfIsWhite(p, half, p.width)

C4_Witness ==
    /\ split
    /\ Len(writer) >= 2
    /\ HalfIsWhite(writer[1], writer[1].width \div 2, writer[1].width)
    /\ HalfIsWhite(writer[2], 0, writer[2].width \div 2)

(***************************************************************************)
(* C5.  As claimed: output is all-or-nothing.  Once anything has failed    *)
(* the output path is as it was before the run (not created, truncated or  *)
(* partially written); the file is opened for writing at most once, and    *)
(* only after every source page has been composited.                       *)
(***************************************************************************)
C5_AllOrNothing ==
    /\ err # "none" => outfile \in {"absent", "old"}
    /\ opens <= 1
    /\ opens = 1 => LoopDone

(***************************************************************************)
(* C6.  load_config_from_toml returns an opacity in [0.0, 1.0]: an         *)
(* opacity of the file outside the range is replaced by the default with   *)
(* a warning, and the file's other settings are kept as given.             *)
(***************************************************************************)
C6_LoadedOpacityInRange ==
    /\ entry = "main" => 0 <= config.opacity /\ config.opacity <= 10
    /\ (pc = "parse_args" /\ toml.exists /\ toml.parses
          /\ "opacity" \in DOMAIN toml.dot_matrix) =>
          LET t == toml.dot_matrix
              o == t["opacity"]
              outOfRange == \/ o.t = "nan"
                            \/ o.t = "float" /\ (o.v < 0 \/ o.v > 10)
          IN  outOfRange =>
                 /\ config.opacity = DefaultOpacity
                 /\ warning = "opacity_out_of_range"
                 /\ config.dot_spacing_mm =
                       IF "spacing_mm" \in DOMAIN t THEN t["spacing_mm"]
                       ELSE DefaultSpacing
                 /\ config.dot_diameter_mm =
                       IF "diameter_mm" \in DOMAIN t THEN t["diameter_mm"]
                       ELSE DefaultDiameter
                 /\ config.dot_color_hex =
                       IF "color_hex" \in DOMAIN t THEN t["color_hex"]
                       ELSE DefaultColor

C6_Witness ==
    /\ pc = "parse_args"
    /\ toml.exists /\ toml.parses
    /\ DOMAIN toml.dot_matrix = {"opacity", "spacing_mm", "diameter_mm", "color_hex"}
    /\ toml.dot_matrix["opacity"] = Num(-5)
    /\ config = DotMatrixConfig(5080, 508, "#ff0000", DefaultOpacity)

(***************************************************************************)
(* C7.  Every output page is composited, bottom to top, as original        *)
(* content, half-mask, dot grid in split mode, and as original content,    *)
(* dot grid in normal mode.  In split mode the steps on an output page are *)
(* mask created, original merged under, dots merged over, in this order,   *)
(* all before the page is appended.                                        *)
(***************************************************************************)
C7_CompositingOrder ==
    /\ \A k \in 1..Len(writer) :
          IF split
          THEN /\ LayerKinds(writer[k]) = <<"orig", "half_white", "dot_matrix">>
               /\ writer[k].ops = <<"create", "merge_under", "merge_over">>
          ELSE /\ LayerKinds(writer[k]) = <<"orig", "dot_matrix">>
               /\ writer[k].ops = <<"merge_over">>
    /\ pc = "merge_under" =>
          /\ LayerKinds(output_page) = <<"half_white">>
          /\ output_page.ops = <<"create">>
    /\ pc = "merge_dots" =>
          /\ LayerKinds(output_page) = <<"orig", "half_white">>
          /\ output_page.ops = <<"create", "merge_under">>
    /\ pc = "add_page" =>
          /\ LayerKinds(output_page) = <<"orig", "half_white", "dot_matrix">>
          /\ output_page.ops = <<"create", "merge_under", "merge_over">>

C7_Witness ==
    /\ split
    /\ Len(writer) >= 1
    /\ LayerKinds(writer[1]) = <<"orig", "half_white", "dot_matrix">>
    /\ Len(Circles(writer[1])) > 1

(***************************************************************************)
(* C8.  As claimed: an output page carries a border line if and only if    *)
(* split and split_border are both true; it is then the one vertical line  *)
(* at x = width/2 from the first to the last y-offset of the page's dots.  *)
(* Stated for the configurations whose opacity is in range, the ones       *)
(* config loading returns.                                                 *)
(***************************************************************************)
C8_BorderIffSplitAndBorder ==
    OpacityInRange(config.opacity) =>
    \A k \in 1..Len(writer) :
        LET p == writer[k]
            lines == BorderLines(p)
            dots == Circles(p)
        IN  IF split /\ split_border
            THEN /\ Len(lines) = 1
                 /\ lines[1].x1 = p.width \div 2
                 /\ lines[1].x2 = p.width \div 2
                 /\ Len(dots) >= 1
                 /\ lines[1].y1 = dots[1].y
                 /\ lines[1].y2 = dots[Len(dots)].y
                 /\ \A n \in 1..Len(dots) :
                       lines[1].y1 <= dots[n].y /\ dots[n].y <= lines[1].y2
            ELSE lines = <<>>

====
